---- MODULE Spec2Model ----
(***************************************************************************)
(* Model of the xmrdirect escrow coordinator: the multisig session         *)
(* coordinator (routes/multisig.ts), the trade lifecycle (routes/trades.ts *)
(* and routes/admin.ts) and the deposit monitor                            *)
(* (services/depositMonitor.ts).                                           *)
(*                                                                         *)
(* The server is a single Node.js process: the code of a request handler   *)
(* between two `await`s runs atomically, and other handlers run while a    *)
(* handler is suspended on a wallet call.  Every action below is one such  *)
(* atomic segment.  Wallet calls are external: each one either resolves or *)
(* throws, and takes arbitrarily long.                                     *)
(*                                                                         *)
(* Coordination blobs ("hex") are opaque strings; they are modelled as     *)
(* sequences of naturals, the empty sequence standing for null / "" (both  *)
(* are falsy in the source's `&&` and `!` tests).                          *)
(***************************************************************************)
EXTENDS Naturals, Integers, Sequences, FiniteSets, Bags, TLC

VARIABLES
    sess,       \* the multisig_sessions row of the session
    hs,         \* the session request handlers suspended on a wallet call (a bag)
    resp,       \* the last response of a session route: HTTP status and error
    makeCalls,  \* successful makeMultisig calls on the service wallet
    exchCalls,  \* successful exchangeMultisigKeys calls, per exchange_round
    cl,         \* progress of the two browser clients (LiveSpec only)
    trade,      \* the trades row of the trade that owns the session
    fees,       \* number of platform_fees rows of the trade
    disputes,   \* number of disputes rows of the trade
    broadcast,  \* signers of the release transaction submitted to the network
    unlocked,   \* the escrow wallet's unlocked balance covers the trade amount
    dc,         \* the deposit checks in their wallet round trip (a bag)
    hasLock,    \* walletLocks.has(sessionId)
    handles,    \* wallet handles the deposit checks have opened and not yet
                \* passed to close()
    calls,      \* checkWalletDeposits calls counted (MonitorSpec only)
    rel,        \* the release handlers suspended on the wallet (a bag)
    initiated,  \* an initiate-release has computed the payout and the fee
    createTx,   \* amount (atomic units) of the last transaction a release
                \* route asked the wallet to create
    platformFee,    \* platformFee of the last initiate-release response
    amount_xmr, \* the amount_xmr values of the trade's platform_fees rows
    fundedWrites,   \* updateTrade(status funded) calls of the deposit checks
    notified,   \* deposit_detected notifications sent
    hasRequire, \* the build gives the routes a `require` (CommonJS) or not
    creating,   \* position of the POST /trades handler: not requested ("none"),
                \* in the wallet calls of initializeMultisigSession, in its
                \* last close, or answered (the response's status)
    walletMutex \* the deployed depositMonitor.ts is the one with walletLocks
                \* and a disabled sweep, or the one without lock that sweeps

sessVars == <<sess, hs, resp, makeCalls, exchCalls>>
buildVars == <<hasRequire, walletMutex>>
depositVars == <<dc, hasLock, fundedWrites, notified>>
monitorVars == <<handles, calls>>
releaseVars == <<fees, broadcast, rel, initiated, createTx, platformFee, amount_xmr>>
tradeVars ==
    <<trade, disputes, unlocked, depositVars, releaseVars, buildVars, creating,
      monitorVars>>
vars == <<sessVars, cl, tradeVars>>

----------------------------------------------------------------------------
(* Bounds *)

NumHandlers == 2        \* session request handlers suspended at the same time
NumExchangeBlobs == 2   \* distinct exchange blobs each user can submit
MaxCalls == 2           \* cap on the counted wallet computations

----------------------------------------------------------------------------
(* Blobs *)

Null == <<>>
Truthy(x) == x # Null

Users == {"user_a", "user_b"}
Roles == {"service"} \cup Users

PId(p) == CASE p = "service" -> 0 [] p = "user_a" -> 1 [] p = "user_b" -> 2

\* What the browser wallets of the users produce in each phase.
UserPrepared(p) == <<PId(p), 1, 1>>
UserMade(p) == <<PId(p), 2, 1>>
UserExchange(p, k) == <<PId(p), 3, k>>

\* serviceWallet.prepareMultisig()
prepareMultisig == <<0, 1, 1>>
\* serviceWallet.makeMultisig(peerHexes, threshold, password)
makeMultisig(peerHexes) == <<0, 2>> \o peerHexes[1] \o peerHexes[2]
\* serviceWallet.exchangeMultisigKeys(hexes, password).getMultisigHex(); the
\* result depends on the wallet's key-exchange state, which advances with the
\* session's round, and on the blobs passed in.  A successful call returns a
\* non-empty blob (the source relies on it to detect that the service has
\* exchanged).
exchangeMultisigKeys(round, hexes) == <<0, 3, round>> \o hexes[1] \o hexes[2]
\* serviceWallet.getAddress(0, 0)
getAddress == <<9>>

----------------------------------------------------------------------------
(* The session store *)

SessionStatuses == <<"preparing", "making", "exchanging", "ready">>

\* createSession + the updateSession of initializeMultisigSession
NewSession(height) ==
    [ status |-> "preparing",
      threshold |-> 2,
      total_participants |-> 3,
      exchange_round |-> 0,
      creation_height |-> height,
      multisig_address |-> Null,
      service_prepared_hex |-> prepareMultisig,
      user_a_prepared_hex |-> Null,
      user_b_prepared_hex |-> Null,
      service_made_hex |-> Null,
      user_a_made_hex |-> Null,
      user_b_made_hex |-> Null,
      service_exchange_hexes |-> Null,
      user_a_exchange_hexes |-> Null,
      user_b_exchange_hexes |-> Null,
      service_exchange_hexes_prev |-> Null,
      user_a_exchange_hexes_prev |-> Null,
      user_b_exchange_hexes_prev |-> Null ]

\* updateSession(id, updates): a partial-field patch
updateSession(s, updates) ==
    [f \in DOMAIN s |-> IF f \in DOMAIN updates THEN updates[f] ELSE s[f]]

\* One field of a patch, named by role
Patch1(field, value) == [f \in {field} |-> value]

totalRounds(s) == s.total_participants - s.threshold + 1

\* A check that forgets the slot of user_b
allPreparedButUserB(s) ==
    /\ Truthy(s.service_prepared_hex)
    /\ Truthy(s.user_a_prepared_hex)

allPrepared(s) ==
    /\ Truthy(s.service_prepared_hex)
    /\ Truthy(s.user_a_prepared_hex)
    /\ Truthy(s.user_b_prepared_hex)

bothUsersMade(s) == Truthy(s.user_a_made_hex) /\ Truthy(s.user_b_made_hex)

\* A check that forgets the slot of the service
allMadeButService(s) ==
    /\ Truthy(s.user_a_made_hex)
    /\ Truthy(s.user_b_made_hex)

allMade(s) ==
    /\ Truthy(s.service_made_hex)
    /\ Truthy(s.user_a_made_hex)
    /\ Truthy(s.user_b_made_hex)

bothUsersExchanged(s) ==
    Truthy(s.user_a_exchange_hexes) /\ Truthy(s.user_b_exchange_hexes)

allExchanged(s) ==
    /\ Truthy(s.service_exchange_hexes)
    /\ Truthy(s.user_a_exchange_hexes)
    /\ Truthy(s.user_b_exchange_hexes)


\* exchange: "Check if ALL participants have exchanged for this round"
exchangeFinal(s, total) ==
    IF allExchanged(s)
    THEN IF s.exchange_round + 1 >= total
         THEN updateSession(s, [ status |-> "ready",
                                 exchange_round |-> s.exchange_round + 1 ])
         ELSE updateSession(s,
                [ exchange_round |-> s.exchange_round + 1,
                  service_exchange_hexes_prev |-> s.service_exchange_hexes,
                  user_a_exchange_hexes_prev |-> s.user_a_exchange_hexes,
                  user_b_exchange_hexes_prev |-> s.user_b_exchange_hexes,
                  service_exchange_hexes |-> Null,
                  user_a_exchange_hexes |-> Null,
                  user_b_exchange_hexes |-> Null ])
    ELSE s

\* retry-service-exchange: "Check if all participants have exchanged"
retryFinal(s, total) ==
    IF allExchanged(s)
    THEN IF s.exchange_round + 1 >= total
         THEN updateSession(s, [ status |-> "ready",
                                 exchange_round |-> s.exchange_round + 1 ])
         ELSE updateSession(s, [ exchange_round |-> s.exchange_round + 1 ])
    ELSE s

\* make: "Check if ALL participants (including service) have made"
makeFinal(s) ==
    IF allMade(s) THEN updateSession(s, [status |-> "exchanging"]) ELSE s

\* The restore-height fix runs when the handler has just written "ready" and
\* the session has a creation height.
needsRestoreFix(s, total) ==
    /\ allExchanged(s)
    /\ s.exchange_round + 1 >= total
    /\ s.creation_height > 0

\* The blobs the service passes to exchangeMultisigKeys when a user's
\* submission triggers its exchange, and in retry-service-exchange
autoHexesToExchange(s) ==
    IF s.exchange_round = 0
    THEN <<s.user_a_made_hex, s.user_b_made_hex>>
    ELSE <<s.user_a_exchange_hexes, s.user_b_exchange_hexes>>

\* The blobs passed when the exchange is requested for participant "service"
serviceHexesToExchange(s) ==
    IF s.exchange_round = 0
    THEN <<s.user_a_made_hex, s.user_b_made_hex>>
    ELSE <<s.user_a_exchange_hexes_prev, s.user_b_exchange_hexes_prev>>

\* A service exchange that never fetches the wallet address
serviceExchangePatchWithoutAddress(final, hex) ==
    [service_exchange_hexes |-> hex]

\* The patch written after the service's exchange: the address goes with it
\* when the handler's snapshot says this is the final round.
serviceExchangePatch(final, hex) ==
    IF final
    THEN [service_exchange_hexes |-> hex, multisig_address |-> getAddress]
    ELSE [service_exchange_hexes |-> hex]

----------------------------------------------------------------------------
(* Request handlers of the session routes.  A handler that reaches an await *)
(* is kept in hs with its position and its local variables until the call  *)
(* resolves or throws; a handler that responds without awaiting is one      *)
(* step.                                                                   *)

NoSession == NewSession(0)

\* A suspended handler: its position, and what it still uses of its local
\* variables: the blobs it passes to the wallet (peerHexes, hexesToExchange,
\* taken from its snapshot of the session row), whether its snapshot is in the
\* final round (exchange_round === totalRounds - 1), and the blob the wallet
\* returned (madeHex, exchangeResultHex)
Handler(pc, hexes, final, val) ==
    [pc |-> pc, hexes |-> hexes, final |-> final, val |-> val]

peerHexes(s) == <<s.user_a_prepared_hex, s.user_b_prepared_hex>>

isFinalRound(s) == s.exchange_round = totalRounds(s) - 1

Add(bag, h) == bag (+) SetToBag({h})
Remove(bag, h) == bag (-) SetToBag({h})

CanSuspend == BagCardinality(hs) < NumHandlers

\* A response: res.status(code).json({ success, error }); of the error text
\* the model keeps whether it is the phase check's "Session is in ... state"
Response(code, error) == [code |-> code, error |-> error]

NoResponse == Response(0, "")

\* The handler has sent its response (res.json / res.status(code).json)
Reply(h, code) ==
    /\ code \in {200, 400, 500}
    /\ hs' = Remove(hs, h)
    /\ resp' = Response(code, "")

\* A request answered without any await
ReplyAtOnce(code) ==
    /\ code \in {200, 400, 500}
    /\ UNCHANGED hs
    /\ resp' = Response(code, "")

\* A request that reaches its first await
Suspend(pc, hexes, final) ==
    /\ CanSuspend
    /\ hs' = Add(hs, Handler(pc, hexes, final, Null))
    /\ UNCHANGED resp

\* A suspended handler moves to its next await
Continue(h, pc, val) ==
    /\ hs' = Add(Remove(hs, h), Handler(pc, Null, FALSE, val))
    /\ UNCHANGED resp

Rounds == 0..(totalRounds(NoSession) - 1)

CanCountExchange ==
    sess.exchange_round \in Rounds => exchCalls[sess.exchange_round] < MaxCalls

CountExchange ==
    IF sess.exchange_round \in Rounds
    THEN [exchCalls EXCEPT ![sess.exchange_round] = @ + 1]
    ELSE exchCalls

\* The phase check of prepare, make and exchange: in any other status the
\* request is answered 400 whatever it carries
PhaseMismatch(phase) ==
    /\ sess.status # phase
    /\ resp' = Response(400, "Session is in " \o sess.status \o " state")
    /\ UNCHANGED <<sess, hs, makeCalls, exchCalls>>

\* A prepare route that has lost its status check
PrepareInAnyStatus(p, blob) ==
    /\ IF p \in Users
       THEN LET s1 == updateSession(sess, Patch1(p \o "_prepared_hex", blob))
            IN /\ sess' = IF allPrepared(s1)
                          THEN updateSession(s1, [status |-> "making"])
                          ELSE s1
               /\ ReplyAtOnce(200)
       ELSE /\ ReplyAtOnce(400)
            /\ UNCHANGED sess
    /\ UNCHANGED <<makeCalls, exchCalls>>

\* POST /multisig/:sessionId/prepare, in status preparing
Prepare(p, blob) ==
    /\ sess.status = "preparing"
    /\ IF p \in Users
       THEN LET s1 == updateSession(sess, Patch1(p \o "_prepared_hex", blob))
            IN /\ sess' = IF allPrepared(s1)
                          THEN updateSession(s1, [status |-> "making"])
                          ELSE s1
               /\ ReplyAtOnce(200)
       ELSE /\ ReplyAtOnce(400)
            /\ UNCHANGED sess
    /\ UNCHANGED <<makeCalls, exchCalls>>

\* POST /multisig/:sessionId/make in status making, up to its first await or
\* its response
Make(p, blob) ==
    /\ sess.status = "making"
    /\ IF p = "service"
       THEN /\ Suspend("ms_1", peerHexes(sess), FALSE)
            /\ UNCHANGED sess
       ELSE IF p \in Users /\ Truthy(blob)
       THEN LET s1 == updateSession(sess, Patch1(p \o "_made_hex", blob))
            IN IF bothUsersMade(s1) /\ ~Truthy(s1.service_made_hex)
               THEN /\ sess' = s1
                    /\ Suspend("am_1", peerHexes(s1), FALSE)
               ELSE /\ sess' = makeFinal(s1)
                    /\ ReplyAtOnce(200)
       ELSE /\ ReplyAtOnce(400)
            /\ UNCHANGED sess
    /\ UNCHANGED <<makeCalls, exchCalls>>

\* make as "service": openWalletFull and makeMultisig resolve or throw
MakeService1(h, ok) ==
    /\ h.pc = "ms_1"
    /\ IF ok
       THEN /\ makeCalls < MaxCalls
            /\ makeCalls' = makeCalls + 1
            /\ Continue(h, "ms_2", makeMultisig(h.hexes))
       ELSE /\ Reply(h, 500)
            /\ UNCHANGED makeCalls
    /\ UNCHANGED <<sess, exchCalls>>

\* make as "service": close resolves or throws, then the rest of the handler
MakeService2(h, ok) ==
    /\ h.pc = "ms_2"
    /\ IF ok
       THEN /\ sess' = makeFinal(
                         updateSession(sess, [service_made_hex |-> h.val]))
            /\ Reply(h, 200)
       ELSE /\ Reply(h, 500)
            /\ UNCHANGED sess
    /\ UNCHANGED <<makeCalls, exchCalls>>

\* auto-make: openWalletFull and makeMultisig resolve, or throw into the catch
AutoMake1(h, ok) ==
    /\ h.pc = "am_1"
    /\ IF ok
       THEN /\ makeCalls < MaxCalls
            /\ makeCalls' = makeCalls + 1
            /\ Continue(h, "am_2", makeMultisig(h.hexes))
            /\ UNCHANGED sess
       ELSE /\ sess' = makeFinal(sess)
            /\ Reply(h, 200)
            /\ UNCHANGED makeCalls
    /\ UNCHANGED exchCalls

\* auto-make: save and close resolve (service_made_hex is written) or throw
AutoMake2(h, ok) ==
    /\ h.pc = "am_2"
    /\ sess' = IF ok
               THEN makeFinal(
                      updateSession(sess, [service_made_hex |-> h.val]))
               ELSE makeFinal(sess)
    /\ Reply(h, 200)
    /\ UNCHANGED <<makeCalls, exchCalls>>

\* The end of the exchange handler, from "Check if ALL participants have
\* exchanged" to the response or to the first await of the restore-height fix;
\* bag is hs without the handler itself
ExchangeFinish(bag, s) ==
    /\ sess' = exchangeFinal(s, totalRounds(s))
    /\ hs' = IF needsRestoreFix(s, totalRounds(s))
             THEN Add(bag, Handler("rf", Null, FALSE, Null))
             ELSE bag
    /\ resp' = IF needsRestoreFix(s, totalRounds(s))
               THEN resp
               ELSE Response(200, "")

\* POST /multisig/:sessionId/exchange in status exchanging, up to its first
\* await or its response
Exchange(p, blob) ==
    /\ sess.status = "exchanging"
    /\ IF p = "service"
       THEN /\ Suspend("xs_1", serviceHexesToExchange(sess), isFinalRound(sess))
            /\ UNCHANGED sess
       ELSE IF p \in Users /\ Truthy(blob)
       THEN LET s1 == updateSession(sess, Patch1(p \o "_exchange_hexes", blob))
            IN IF bothUsersExchanged(s1) /\ ~Truthy(s1.service_exchange_hexes)
               THEN /\ sess' = s1
                    /\ Suspend("ax_1", autoHexesToExchange(s1), isFinalRound(s1))
               ELSE /\ needsRestoreFix(s1, totalRounds(s1)) => CanSuspend
                    /\ ExchangeFinish(hs, s1)
       ELSE /\ ReplyAtOnce(400)
            /\ UNCHANGED sess
    /\ UNCHANGED <<makeCalls, exchCalls>>

\* exchange as "service": openWalletFull, exchangeMultisigKeys and, in the
\* round the snapshot takes for the final one, getAddress (written at once)
ExchangeService1(h, ok) ==
    /\ h.pc = "xs_1"
    /\ IF ok
       THEN /\ CanCountExchange
            /\ exchCalls' = CountExchange
            /\ Continue(h, "xs_2",
                        exchangeMultisigKeys(sess.exchange_round, h.hexes))
            /\ sess' = IF h.final
                       THEN updateSession(sess, [multisig_address |-> getAddress])
                       ELSE sess
       ELSE /\ Reply(h, 500)
            /\ UNCHANGED <<sess, exchCalls>>
    /\ UNCHANGED makeCalls

\* exchange as "service": save and close, then the rest of the handler
ExchangeService2(h, ok) ==
    /\ h.pc = "xs_2"
    /\ IF ok
       THEN ExchangeFinish(Remove(hs, h),
                updateSession(sess, [service_exchange_hexes |-> h.val]))
       ELSE /\ Reply(h, 500)
            /\ UNCHANGED sess
    /\ UNCHANGED <<makeCalls, exchCalls>>

\* auto-exchange: openWalletFull, exchangeMultisigKeys (and getAddress) resolve
\* and the result is written, or one of them throws into the catch
AutoExchange1(h, ok) ==
    /\ h.pc = "ax_1"
    /\ IF ok
       THEN /\ CanCountExchange
            /\ exchCalls' = CountExchange
            /\ sess' = updateSession(sess,
                          serviceExchangePatch(h.final,
                              exchangeMultisigKeys(sess.exchange_round,
                                                   h.hexes)))
            /\ Continue(h, "ax_2", Null)
       ELSE /\ ExchangeFinish(Remove(hs, h), sess)
            /\ UNCHANGED exchCalls
    /\ UNCHANGED makeCalls

\* auto-exchange: save and close resolve or throw into the catch
AutoExchange2(h, ok) ==
    /\ h.pc = "ax_2"
    /\ ok \in BOOLEAN
    /\ ExchangeFinish(Remove(hs, h), sess)
    /\ UNCHANGED <<makeCalls, exchCalls>>

\* The restore-height fix after "ready": its wallet calls resolve or throw into
\* its own catch; it writes nothing to the store
RestoreFix(h, ok) ==
    /\ h.pc = "rf"
    /\ ok \in BOOLEAN
    /\ Reply(h, 200)
    /\ UNCHANGED <<sess, makeCalls, exchCalls>>

\* POST /multisig/:sessionId/admin/retry-service-exchange, up to its first await
RetryServiceExchange ==
    /\ IF /\ sess.status = "exchanging"
          /\ bothUsersExchanged(sess)
          /\ ~Truthy(sess.service_exchange_hexes)
       THEN Suspend("rt_1", autoHexesToExchange(sess), isFinalRound(sess))
       ELSE ReplyAtOnce(400)
    /\ UNCHANGED <<sess, makeCalls, exchCalls>>

\* retry: openWalletFull, isMultisig, exchangeMultisigKeys (and getAddress)
\* resolve and the result is written, or one of them throws
Retry1(h, ok) ==
    /\ h.pc = "rt_1"
    /\ IF ok
       THEN /\ CanCountExchange
            /\ exchCalls' = CountExchange
            /\ sess' = updateSession(sess,
                          serviceExchangePatch(h.final,
                              exchangeMultisigKeys(sess.exchange_round,
                                                   h.hexes)))
            /\ Continue(h, "rt_2", Null)
       ELSE /\ Reply(h, 500)
            /\ UNCHANGED <<sess, exchCalls>>
    /\ UNCHANGED makeCalls

\* retry: save and close, then the round is closed
Retry2(h, ok) ==
    /\ h.pc = "rt_2"
    /\ IF ok
       THEN /\ sess' = retryFinal(sess, totalRounds(sess))
            /\ hs' = IF needsRestoreFix(sess, totalRounds(sess))
                     THEN Add(Remove(hs, h), Handler("rf", Null, FALSE, Null))
                     ELSE Remove(hs, h)
            /\ resp' = IF needsRestoreFix(sess, totalRounds(sess))
                       THEN resp
                       ELSE Response(200, "")
       ELSE /\ Reply(h, 500)
            /\ UNCHANGED sess
    /\ UNCHANGED <<makeCalls, exchCalls>>

----------------------------------------------------------------------------
(* JavaScript numbers.  An amount in XMR is a Number: a binary64 value      *)
(* m * 2^e with a 53-bit m; every operation rounds its exact result to the  *)
(* nearest such value, ties to even.  A natural number that does not fit    *)
(* the checker's integers (a mantissa, a product of mantissas, a BigInt of  *)
(* atomic units) is the sequence of its base-2^LimbBits digits, least       *)
(* significant first, without leading zeros.                                *)

LimbBits == 10
Base == 2 ^ LimbBits

Limb(a, i) == IF i \in 1..Len(a) THEN a[i] ELSE 0

Norm(a) ==
    LET used == {i \in 1..Len(a) : a[i] # 0}
    IN IF used = {}
       THEN <<>>
       ELSE SubSeq(a, 1, CHOOSE i \in used : \A j \in used : j <= i)

\* Carries digit sums (or differences) into digits
RECURSIVE Propagate(_, _)
Propagate(columns, carry) ==
    IF columns = <<>>
    THEN IF carry = 0
         THEN <<>>
         ELSE <<carry % Base>> \o Propagate(<<>>, carry \div Base)
    ELSE LET v == columns[1] + carry
         IN <<v % Base>> \o Propagate(Tail(columns), v \div Base)

NatOf(n) == Norm(Propagate(<<n>>, 0))

RECURSIVE IntOf(_)
IntOf(a) == IF a = <<>> THEN 0 ELSE a[1] + Base * IntOf(Tail(a))

AddNat(a, b) ==
    LET n == IF Len(a) > Len(b) THEN Len(a) ELSE Len(b)
    IN Norm(Propagate([i \in 1..n |-> Limb(a, i) + Limb(b, i)], 0))

\* a - b for a >= b
SubNat(a, b) ==
    Norm(Propagate([i \in 1..Len(a) |-> Limb(a, i) - Limb(b, i)], 0))

RECURSIVE Column(_, _, _, _)
Column(a, b, k, i) ==
    IF i > Len(a) THEN 0 ELSE a[i] * Limb(b, k - i + 1) + Column(a, b, k, i + 1)

MulNat(a, b) ==
    Norm(Propagate([k \in 1..(Len(a) + Len(b)) |-> Column(a, b, k, 1)], 0))

\* Quotient and remainder of a by a small d, from the top digit down
RECURSIVE DivFrom(_, _, _, _)
DivFrom(a, d, i, rem) ==
    IF i = 0
    THEN [q |-> <<>>, r |-> rem]
    ELSE LET v == rem * Base + a[i]
             rest == DivFrom(a, d, i - 1, v % d)
         IN [q |-> Append(rest.q, v \div d), r |-> rest.r]

DivNat(a, d) ==
    LET p == DivFrom(a, d, Len(a), 0) IN [q |-> Norm(p.q), r |-> p.r]

\* The bit of weight 2^i
BitAt(a, i) == (Limb(a, i \div LimbBits + 1) \div 2 ^ (i % LimbBits)) % 2

BitLen(a) ==
    IF a = <<>>
    THEN 0
    ELSE (Len(a) - 1) * LimbBits
            + CHOOSE k \in 1..LimbBits : a[Len(a)] \div 2 ^ (k - 1) = 1

ShiftRight(a, s) ==
    LET q == s \div LimbBits
        r == s % LimbBits
    IN Norm([j \in 1..(Len(a) - q) |->
                Limb(a, j + q) \div 2 ^ r
                    + (Limb(a, j + q + 1) % 2 ^ r) * 2 ^ (LimbBits - r)])

ShiftLeft(a, s) ==
    LET q == s \div LimbBits
        r == s % LimbBits
    IN Norm([j \in 1..(Len(a) + q + 1) |->
                (Limb(a, j - q) % 2 ^ (LimbBits - r)) * 2 ^ r
                    + Limb(a, j - q - 1) \div 2 ^ (LimbBits - r)])

Precision == 53

\* The Number nearest to a * 2^e, ties to even
RoundDouble(a, e) ==
    LET n == BitLen(a)
        s == n - Precision
    IN IF s <= 0
       THEN [m |-> ShiftLeft(a, 0 - s), e |-> e + s]
       ELSE LET keep == ShiftRight(a, s)
                sticky == \E i \in 0..(s - 2) : BitAt(a, i) = 1
                up == BitAt(a, s - 1) = 1 /\ (sticky \/ BitAt(keep, 0) = 1)
                r == IF up THEN AddNat(keep, <<1>>) ELSE keep
            IN IF BitLen(r) > Precision
               THEN [m |-> ShiftRight(r, 1), e |-> e + s + 1]
               ELSE [m |-> r, e |-> e + s]

\* JSON.parse and the compiler on a decimal literal num/den
parseNumber(num, den) ==
    LET p == DivNat(ShiftLeft(NatOf(num), 100), den)
    IN RoundDouble(AddNat(ShiftLeft(p.q, 1),
                          IF p.r = 0 THEN <<>> ELSE <<1>>), -101)

\* a * b
mulDouble(a, b) == RoundDouble(MulNat(a.m, b.m), a.e + b.e)

\* a - b for a >= b
subDouble(a, b) ==
    LET e == IF a.e < b.e THEN a.e ELSE b.e
    IN RoundDouble(SubNat(ShiftLeft(a.m, a.e - e), ShiftLeft(b.m, b.e - e)), e)

\* BigInt(Math.floor(a))
floorDouble(a) ==
    IF a.e >= 0 THEN ShiftLeft(a.m, a.e) ELSE ShiftRight(a.m, 0 - a.e)

\* A BigInt of atomic units, written as <<millionths of an XMR, atomic units
\* below a millionth>>
Atomic(a) == LET p == DivNat(a, 1000000) IN <<IntOf(p.q), p.r>>

\* The literal 1e12: atomic units per XMR
E12 == mulDouble(parseNumber(1000000, 1), parseNumber(1000000, 1))

\* const FEE_PERCENTAGE = 0.005
FEE_PERCENTAGE == parseNumber(5, 1000)

\* xmr_amount * FEE_PERCENTAGE
feeXmr(xmr_amount) == mulDouble(xmr_amount, FEE_PERCENTAGE)

\* xmr_amount - feeXmr
amountAfterFee(xmr_amount) == subDouble(xmr_amount, feeXmr(xmr_amount))

\* BigInt(Math.floor(amountAfterFee * 1e12))
amountAfterFeeAtomic(xmr_amount) ==
    Atomic(floorDouble(mulDouble(amountAfterFee(xmr_amount), E12)))

----------------------------------------------------------------------------
(* The trade store, the release routes and the deposit monitor *)

NumChecks == 3      \* callers inside checkWalletDeposits at the same time
NumReleases == 1    \* release handlers suspended on the wallet at the same time
MaxFees == 2        \* cap on the counted platform_fees rows
MaxDisputes == 2    \* cap on the counted disputes rows
MaxWrites == 2      \* cap on the counted funded writes and notifications

\* validStatuses of PUT /admin/trades/:id
TradeStatuses ==
    { "pending", "funded", "payment_sent", "payment_confirmed", "releasing",
      "completed", "disputed", "cancelled" }

\* req.userId against trade.buyer_id and trade.seller_id
Callers == {"buyer", "seller", "other"}

\* The xmr_amount of the body of POST /trades, as decimal literals: 2.0 and 3.3
TwoXmr == [num |-> 2, den |-> 1]
Amounts == {TwoXmr, [num |-> 33, den |-> 10]}

\* createTrade(tradeId, offer_id, buyerId, sellerId, amount, xmr_amount)
createTrade(xmr_amount) ==
    [ status |-> "pending",
      multisig_session_id |-> Null,
      xmr_amount |-> parseNumber(xmr_amount.num, xmr_amount.den) ]

\* createTrade + the updateTrade of POST /trades
NewTrade(xmr_amount) ==
    [createTrade(xmr_amount) EXCEPT !.multisig_session_id = <<1>>]

\* updateTrade(id, { status })
updateTrade(status) == trade' = [trade EXCEPT !.status = status]

\* recordPlatformFee(feeId, id, feeXmr, FEE_PERCENTAGE): a plain INSERT
recordPlatformFee(amountXmr) ==
    /\ fees' = fees + 1
    /\ amount_xmr' = amount_xmr \cup {amountXmr}

\* createDispute(disputeId, id, req.userId, reason): a plain INSERT
createDispute == disputes' = disputes + 1

\* POST /trades with a valid body, up to its await of
\* initializeMultisigSession: the trade row is inserted
CreateTradeRequest(xmr_amount) ==
    /\ creating = "none"
    /\ trade' = createTrade(xmr_amount)
    /\ creating' = "wallet"
    /\ UNCHANGED sess

\* initializeMultisigSession: the height is read (0 if the daemon is not
\* reachable), the service wallet is created, restored and prepared (ok), and
\* the session row is written; a wallet call that throws ends the request
\* with 500
InitializeMultisigSession(height, ok) ==
    /\ creating = "wallet"
    /\ IF ok
       THEN /\ sess' = NewSession(height)
            /\ creating' = "close"
       ELSE /\ creating' = "500"
            /\ UNCHANGED sess
    /\ UNCHANGED trade

\* The last await of initializeMultisigSession, serviceWallet.close(), and the
\* rest of POST /trades: the session is linked to the trade, the participants
\* are notified, the response is 201; a throw of close() or of the
\* notification ends the request with 500
LinkSession(closed, notifies) ==
    /\ creating = "close"
    /\ IF closed
       THEN /\ trade' = [trade EXCEPT !.multisig_session_id = <<1>>]
            /\ creating' = IF notifies THEN "201" ELSE "500"
       ELSE /\ creating' = "500"
            /\ UNCHANGED trade
    /\ UNCHANGED sess

\* mark-payment-sent without its status check
MarkPaymentSentInAnyStatus(caller) ==
    /\ IF caller = "buyer"
       THEN updateTrade("payment_sent")
       ELSE UNCHANGED trade
    /\ UNCHANGED <<disputes, unlocked, depositVars, releaseVars>>

\* POST /trades/:id/mark-payment-sent
MarkPaymentSent(caller) ==
    /\ IF caller = "buyer" /\ trade.status = "funded"
       THEN updateTrade("payment_sent")
       ELSE UNCHANGED trade
    /\ UNCHANGED <<disputes, unlocked, depositVars, releaseVars>>

\* A release handler suspended on the wallet: its route and the status of the
\* trade row it read at the start (its local `trade`)
Release(route, status) == [route |-> route, status |-> status]

\* initiate-release, were it to mark the trade as releasing when it succeeds
InitiateReleaseMarksReleasing(caller, recipientAddress, ok) ==
    /\ IF /\ caller = "seller"
          /\ trade.status = "payment_sent"
          /\ Truthy(recipientAddress)
          /\ Truthy(trade.multisig_session_id)
          /\ sess.status = "ready"
          /\ ok
       THEN /\ initiated' = TRUE
            /\ createTx' = amountAfterFeeAtomic(trade.xmr_amount)
            /\ platformFee' = feeXmr(trade.xmr_amount)
            /\ updateTrade("releasing")
       ELSE UNCHANGED <<initiated, createTx, platformFee, trade>>
    /\ UNCHANGED <<disputes, unlocked, depositVars, fees, broadcast, rel,
                   amount_xmr>>

\* POST /trades/:id/initiate-release: the seller of a payment_sent trade with a
\* ready session gets the payout (amount minus fee) computed and the unsigned
\* transaction in the response, if openWalletFull and sync resolve (ok);
\* nothing is written to the store.  The handler uses only its locals after
\* its awaits, so it is one step.
InitiateRelease(caller, recipientAddress, ok) ==
    /\ IF /\ caller = "seller"
          /\ trade.status = "payment_sent"
          /\ Truthy(recipientAddress)
          /\ Truthy(trade.multisig_session_id)
          /\ sess.status = "ready"
          /\ ok
       THEN /\ initiated' = TRUE
            /\ createTx' = amountAfterFeeAtomic(trade.xmr_amount)
            /\ platformFee' = feeXmr(trade.xmr_amount)
       ELSE UNCHANGED <<initiated, createTx, platformFee>>
    /\ UNCHANGED <<trade, disputes, unlocked, depositVars, fees, broadcast, rel,
                   amount_xmr>>

\* finalize-release without its check of the caller
FinalizeReleaseByAnyone(caller, sellerSignedHex) ==
    /\ IF /\ Truthy(sellerSignedHex)
          /\ Truthy(trade.multisig_session_id)
       THEN /\ BagCardinality(rel) < NumReleases
            /\ updateTrade("releasing")
            /\ rel' = Add(rel, Release("finalize", trade.status))
       ELSE UNCHANGED <<trade, rel>>
    /\ UNCHANGED <<disputes, unlocked, depositVars, fees, broadcast, initiated,
                   createTx, platformFee, amount_xmr>>

\* POST /trades/:id/finalize-release, up to its first await
FinalizeRelease(caller, sellerSignedHex) ==
    /\ IF /\ caller = "seller"
          /\ Truthy(sellerSignedHex)
          /\ Truthy(trade.multisig_session_id)
       THEN /\ BagCardinality(rel) < NumReleases
            /\ updateTrade("releasing")
            /\ rel' = Add(rel, Release("finalize", trade.status))
       ELSE UNCHANGED <<trade, rel>>
    /\ UNCHANGED <<disputes, unlocked, depositVars, fees, broadcast, initiated,
                   createTx, platformFee, amount_xmr>>

\* finalize-release: openWalletFull, signMultisigTxHex, submitMultisigTxHex and
\* close; outcome "throws" is a throw before the transaction is submitted,
\* "submitted" a throw after it, "closed" no throw.  The network accepts the
\* transaction only if the wallet holds the funds it spends.
FinalizeWallet(r, outcome) ==
    /\ BagIn(r, rel)
    /\ r.route = "finalize"
    /\ rel' = Remove(rel, r)
    /\ outcome \in {"throws", "submitted", "closed"}
    /\ IF outcome = "throws"
       THEN UNCHANGED <<trade, fees, amount_xmr, broadcast, unlocked>>
       ELSE /\ unlocked
            /\ broadcast' = {"seller", "service"}
            /\ unlocked' = FALSE
            /\ IF outcome = "closed" /\ hasRequire
               THEN /\ fees < MaxFees
                    /\ recordPlatformFee(feeXmr(trade.xmr_amount))
                    /\ updateTrade("completed")
               ELSE UNCHANGED <<trade, fees, amount_xmr>>
    /\ UNCHANGED <<disputes, depositVars, initiated, createTx, platformFee>>

\* POST /trades/:id/dispute
Dispute(caller, reason) ==
    /\ IF /\ Truthy(reason)
          /\ caller \in {"buyer", "seller"}
          /\ trade.status \notin {"completed", "disputed"}
       THEN /\ disputes < MaxDisputes
            /\ createDispute
            /\ updateTrade("disputed")
       ELSE UNCHANGED <<trade, disputes>>
    /\ UNCHANGED <<unlocked, depositVars, releaseVars>>

\* PUT /admin/trades/:id
AdminUpdateTrade(status) ==
    /\ IF status \in TradeStatuses
       THEN updateTrade(status)
       ELSE UNCHANGED trade
    /\ UNCHANGED <<disputes, unlocked, depositVars, releaseVars>>

\* POST /admin/trades/:id/release-escrow, up to its first await
AdminReleaseEscrow(recipient, recipientAddress) ==
    /\ IF /\ recipient \in {"buyer", "seller"}
          /\ Truthy(recipientAddress)
          /\ trade.status \in {"payment_confirmed", "disputed"}
          /\ Truthy(trade.multisig_session_id)
          /\ sess.status = "ready"
       THEN /\ BagCardinality(rel) < NumReleases
            /\ rel' = Add(rel, Release("release-escrow", trade.status))
       ELSE UNCHANGED rel
    /\ UNCHANGED <<trade, disputes, unlocked, depositVars, fees, broadcast,
                   initiated, createTx, platformFee, amount_xmr>>

\* release-escrow: openWalletFull, sync, getUnlockedBalance, then createTx,
\* exportMultisigHex, signMultisigTxHex (the service's signature) and close;
\* nothing is submitted to the network
AdminReleaseWallet(r, ok) ==
    /\ BagIn(r, rel)
    /\ r.route = "release-escrow"
    /\ rel' = Remove(rel, r)
    /\ createTx' = IF ok /\ unlocked
                   THEN amountAfterFeeAtomic(trade.xmr_amount)
                   ELSE createTx
    /\ IF ok /\ unlocked /\ hasRequire
       THEN /\ fees < MaxFees
            /\ recordPlatformFee(feeXmr(trade.xmr_amount))
            /\ updateTrade("completed")
       ELSE UNCHANGED <<trade, fees, amount_xmr>>
    /\ UNCHANGED <<disputes, unlocked, depositVars, broadcast, initiated,
                   platformFee>>

\* The seller (or anybody) pays the trade amount to the escrow address and the
\* payment unlocks
Deposit ==
    /\ Truthy(sess.multisig_address)
    /\ ~unlocked
    /\ unlocked' = TRUE
    /\ UNCHANGED <<trade, disputes, depositVars, releaseVars>>

\* A deposit check inside performWalletCheck's wallet round trip: whether its
\* caller is a sweep of monitorDeposits or a checkTradeDeposit, whether the
\* trade row the caller read had status pending, whether the walletLocks entry
\* of the session holds its promise, and the callers awaiting its promise, in
\* order of arrival; the await it is at (pc), whether it holds an open wallet
\* handle, and whether the call it awaits never returns (hung)
Caller(sweep, pend) == [sweep |-> sweep, pend |-> pend]

Check(caller, lock, waiters) ==
    [sweep |-> caller.sweep, pend |-> caller.pend, lock |-> lock,
     waiters |-> waiters, pc |-> "open", handle |-> FALSE, hung |-> FALSE]

\* walletLocks.get(sessionId): the checks whose promise the entry holds (one
\* or none)
walletLocks == {c \in BagToSet(dc) : c.lock}

\* walletLocks.delete(sessionId)
Unlocked(checks) ==
    LET held == {c \in BagToSet(checks) : c.lock}
    IN IF held = {}
       THEN checks
       ELSE LET c == CHOOSE x \in held : TRUE
            IN Add(Remove(checks, c), [c EXCEPT !.lock = FALSE])

\* The callers released by a resolved promise start their performWalletCheck
\* one after the other, each overwriting the walletLocks entry
RECURSIVE Resumed(_, _)
Resumed(checks, callers) ==
    IF callers = <<>>
    THEN checks
    ELSE Resumed(Add(Unlocked(checks), Check(Head(callers), TRUE, <<>>)),
                 Tail(callers))

\* Callers inside checkWalletDeposits: in the wallet, or waiting
RECURSIVE InFlight(_)
InFlight(checks) ==
    IF BagToSet(checks) = {}
    THEN 0
    ELSE LET c == CHOOSE x \in BagToSet(checks) : TRUE
         IN 1 + Len(c.waiters) + InFlight(Remove(checks, c))

\* checkWalletDeposits up to its first await: with the mutex, a caller that
\* finds an entry in walletLocks awaits its promise; otherwise
\* performWalletCheck starts and its promise is set as the entry (for a
\* session that is not ready it returns at once, without deposit, and the
\* finally deletes the entry)
checkWalletDeposits(caller) ==
    /\ InFlight(dc) < NumChecks
    /\ IF walletMutex /\ hasLock /\ walletLocks # {}
       THEN LET c == CHOOSE x \in walletLocks : TRUE
            IN /\ dc' = Add(Remove(dc, c),
                            [c EXCEPT !.waiters = Append(@, caller)])
               /\ UNCHANGED hasLock
       ELSE IF sess.status = "ready"
       THEN /\ dc' = Add(dc, Check(caller, walletMutex, <<>>))
            /\ hasLock' = walletMutex
       ELSE /\ UNCHANGED dc
            /\ hasLock' = FALSE

\* POST /trades/:id/check-deposit and checkTradeDeposit, up to the first await
CheckDeposit(caller) ==
    /\ IF caller \in {"buyer", "seller"} /\ Truthy(trade.multisig_session_id)
       THEN checkWalletDeposits(Caller(FALSE, trade.status = "pending"))
       ELSE UNCHANGED <<dc, hasLock>>
    /\ UNCHANGED <<trade, disputes, unlocked, fundedWrites, notified,
                   releaseVars>>

\* monitorDeposits, run at start and every POLL_INTERVAL by the depositMonitor
\* that sweeps: the trade is selected if it is pending
MonitorDeposits ==
    /\ ~walletMutex
    /\ IF trade.status = "pending" /\ Truthy(trade.multisig_session_id)
       THEN checkWalletDeposits(Caller(TRUE, TRUE))
       ELSE UNCHANGED <<dc, hasLock>>
    /\ UNCHANGED <<trade, disputes, unlocked, fundedWrites, notified,
                   releaseVars>>

\* The end of a wallet round trip whose result the waiting callers take as
\* their own
WalletCheckDoneShared(c, ok) ==
    /\ BagIn(c, dc)
    /\ LET isUnlocked == ok /\ unlocked
           rest == Remove(dc, c)
       IN /\ dc' = IF ~walletMutex THEN rest ELSE Unlocked(rest)
          /\ hasLock' = FALSE
          /\ IF isUnlocked /\ (c.sweep \/ c.pend)
             THEN /\ fundedWrites < MaxWrites
                  /\ fundedWrites' = fundedWrites + 1
                  /\ updateTrade("funded")
                  /\ notified' = IF c.sweep THEN notified + 1 ELSE notified
             ELSE UNCHANGED <<trade, fundedWrites, notified>>
    /\ UNCHANGED <<disputes, unlocked, releaseVars>>

\* The end of a wallet round trip that leaves the entry in walletLocks when
\* a call threw
WalletCheckDoneKeepingLock(c, ok) ==
    /\ BagIn(c, dc)
    /\ LET isUnlocked == ok /\ unlocked
           rest == Remove(dc, c)
       IN /\ dc' = IF ~walletMutex THEN rest
                    ELSE IF sess.status = "ready"
                    THEN Resumed(Unlocked(rest), c.waiters)
                    ELSE Unlocked(rest)
          /\ hasLock' = IF ok
                        THEN walletMutex /\ sess.status = "ready"
                                         /\ c.waiters # <<>>
                        ELSE hasLock
          /\ IF isUnlocked /\ (c.sweep \/ c.pend)
             THEN /\ fundedWrites < MaxWrites
                  /\ fundedWrites' = fundedWrites + 1
                  /\ updateTrade("funded")
                  /\ notified' = IF c.sweep THEN notified + 1 ELSE notified
             ELSE UNCHANGED <<trade, fundedWrites, notified>>
    /\ UNCHANGED <<disputes, unlocked, releaseVars>>

\* The wallet round trip of check c ends: the balances were read (ok) or a
\* call threw.  With the mutex its finally deletes the walletLocks entry and
\* every caller waiting on its promise starts its own performWalletCheck.
\* Then the caller of c acts on isUnlocked: monitorDeposits writes funded and
\* notifies; checkTradeDeposit writes funded if the row it read at the start
\* was pending.
WalletCheckDone(c, ok) ==
    /\ BagIn(c, dc)
    /\ LET isUnlocked == ok /\ unlocked
           rest == Remove(dc, c)
       IN /\ dc' = IF ~walletMutex THEN rest
                    ELSE IF sess.status = "ready"
                    THEN Resumed(Unlocked(rest), c.waiters)
                    ELSE Unlocked(rest)
          /\ hasLock' = (walletMutex /\ sess.status = "ready"
                                     /\ c.waiters # <<>>)
          /\ IF isUnlocked /\ (c.sweep \/ c.pend)
             THEN /\ fundedWrites < MaxWrites
                  /\ fundedWrites' = fundedWrites + 1
                  /\ updateTrade("funded")
                  /\ notified' = IF c.sweep THEN notified + 1 ELSE notified
             ELSE UNCHANGED <<trade, fundedWrites, notified>>
    /\ UNCHANGED <<disputes, unlocked, releaseVars>>

\* The check c goes on to its next await
Moved(c, pc, handle) ==
    /\ dc' = Add(Remove(dc, c),
                 [c EXCEPT !.pc = pc, !.handle = handle, !.hung = FALSE])
    /\ UNCHANGED <<trade, disputes, unlocked, hasLock, fundedWrites, notified,
                   releaseVars>>

\* A catch block that returns without closing the wallet
catchWithoutClose(c) ==
    /\ UNCHANGED handles
    /\ WalletCheckDone(c, FALSE)

\* The catch block of performWalletCheck: serviceWallet.close() is called on
\* the handle (a throw of it is logged) and the check returns no deposit
\* A catch block that reports the deposit as unlocked
catchReportsDeposit(c) == handles' = handles - 1 /\ WalletCheckDone(c, TRUE)

catchClose(c) ==
    /\ handles' = handles - 1
    /\ WalletCheckDone(c, FALSE)

\* performWalletCheck from one await to the next: the call the check c awaits
\* resolves (ok) or throws.  The awaits are openWalletFull ("open"); with
\* walletLocks, getHeight, getDaemonHeight and the restore-height fix
\* ("height"), after which the sync is skipped if the wallet is synced; the
\* sync raced with the timer ("sync"); getBalance and getUnlockedBalance
\* ("balance"); close ("close"); the close of the catch block ("catch").  The
\* return runs with the resolution of the last await.
performWalletCheck(c, ok, synced) ==
    /\ BagIn(c, dc)
    /\ ~c.hung
    /\ CASE c.pc = "open" ->
              IF ok
              THEN /\ handles' = handles + 1
                   /\ Moved(c, IF walletMutex THEN "height" ELSE "sync", TRUE)
              ELSE /\ UNCHANGED handles
                   /\ WalletCheckDone(c, FALSE)
         [] c.pc = "height" ->
              /\ Moved(c, IF ~ok THEN "catch"
                          ELSE IF synced THEN "balance" ELSE "sync", TRUE)
              /\ UNCHANGED handles
         [] c.pc = "sync" ->
              /\ Moved(c, IF ok THEN "balance" ELSE "catch", TRUE)
              /\ UNCHANGED handles
         [] c.pc = "balance" ->
              /\ Moved(c, IF ok THEN "close" ELSE "catch", TRUE)
              /\ UNCHANGED handles
         [] c.pc = "close" ->
              IF ok
              THEN /\ handles' = handles - 1
                   /\ WalletCheckDone(c, TRUE)
              ELSE /\ Moved(c, "catch", TRUE)
                   /\ UNCHANGED handles
         [] c.pc = "catch" -> catchClose(c)

\* The timer raced with sync() fires: the race rejects into the catch block
SyncTimesOut(c) ==
    /\ BagIn(c, dc)
    /\ c.pc = "sync"
    /\ Moved(c, "catch", TRUE)
    /\ UNCHANGED handles

\* The wallet call the check c awaits never returns
WalletHangs(c) ==
    /\ BagIn(c, dc)
    /\ ~c.hung
    /\ dc' = Add(Remove(dc, c), [c EXCEPT !.hung = TRUE])
    /\ UNCHANGED <<trade, disputes, unlocked, hasLock, fundedWrites, notified,
                   releaseVars, handles>>

----------------------------------------------------------------------------
(* Spec: the session routes under arbitrary requests, with wallet calls    *)
(* that may fail                                                           *)

MaxHeight == 1      \* creation heights 0 (daemon unreachable) .. MaxHeight

\* No session request in flight, nothing counted yet
SessionIdle ==
    /\ hs = EmptyBag
    /\ resp = NoResponse
    /\ makeCalls = 0
    /\ exchCalls = [r \in Rounds |-> 0]
    /\ cl = [p \in Users |-> 0]

\* The trade as POST /trades leaves it, nothing of it in flight
\* No row but the trade's and the session's, nothing in flight
StoreIdle ==
    /\ fees = 0
    /\ createTx = Null
    /\ platformFee = Null
    /\ amount_xmr = {}
    /\ disputes = 0
    /\ broadcast = {}
    /\ unlocked = FALSE
    /\ dc = EmptyBag
    /\ hasLock = FALSE
    /\ handles = 0
    /\ calls = 0
    /\ rel = EmptyBag
    /\ initiated = FALSE
    /\ fundedWrites = 0
    /\ notified = 0

TradeIdleFor(xmr_amount) ==
    /\ trade = NewTrade(xmr_amount)
    /\ creating = "201"
    /\ StoreIdle

TradeIdle == TradeIdleFor(TwoXmr)

Init ==
    /\ \E height \in 0..MaxHeight : sess = NewSession(height)
    /\ SessionIdle
    /\ TradeIdle
    /\ hasRequire = TRUE
    /\ walletMutex = TRUE

\* What a caller may send as participantId and as blob
Pids == Roles \cup {"other"}
PreparedInputs(p) == IF p \in Users THEN {UserPrepared(p), Null} ELSE {Null}
MadeInputs(p) == IF p \in Users THEN {UserMade(p), Null} ELSE {Null}
ExchangeInputs(p) ==
    IF p \in Users
    THEN {UserExchange(p, k) : k \in 1..NumExchangeBlobs} \cup {Null}
    ELSE {Null}

otherVars == <<cl, tradeVars>>

\* The requests whose participantId is drawn from pids
SubmitPreparedBy(pids) ==
    /\ \/ PhaseMismatch("preparing")
       \/ \E p \in pids : \E blob \in PreparedInputs(p) : Prepare(p, blob)
    /\ UNCHANGED otherVars

SubmitMadeBy(pids) ==
    /\ \/ PhaseMismatch("making")
       \/ \E p \in pids : \E blob \in MadeInputs(p) : Make(p, blob)
    /\ UNCHANGED otherVars

SubmitExchangeBy(pids) ==
    /\ \/ PhaseMismatch("exchanging")
       \/ \E p \in pids : \E blob \in ExchangeInputs(p) : Exchange(p, blob)
    /\ UNCHANGED otherVars

SubmitPrepared == SubmitPreparedBy(Pids)
SubmitMade == SubmitMadeBy(Pids)
SubmitExchange == SubmitExchangeBy(Pids)
SubmitRetry == RetryServiceExchange /\ UNCHANGED otherVars

\* A pending wallet call of a suspended handler resolves (ok) or throws
WalletStep(h, ok) ==
    \/ MakeService1(h, ok)
    \/ MakeService2(h, ok)
    \/ AutoMake1(h, ok)
    \/ AutoMake2(h, ok)
    \/ ExchangeService1(h, ok)
    \/ ExchangeService2(h, ok)
    \/ AutoExchange1(h, ok)
    \/ AutoExchange2(h, ok)
    \/ RestoreFix(h, ok)
    \/ Retry1(h, ok)
    \/ Retry2(h, ok)

WalletCall ==
    /\ \E h \in BagToSet(hs), ok \in BOOLEAN : WalletStep(h, ok)
    /\ UNCHANGED otherVars

Next ==
    \/ SubmitPrepared
    \/ SubmitMade
    \/ SubmitExchange
    \/ SubmitRetry
    \/ WalletCall

Spec == Init /\ [][Next]_vars

----------------------------------------------------------------------------
(* ParticipantSpec: only the two external participants submit (and          *)
(* re-submit), and the admin retries; nobody requests make or exchange as   *)
(* "service"                                                                *)

ParticipantPrepared == SubmitPreparedBy(Users)
ParticipantMade == SubmitMadeBy(Users)
ParticipantExchange == SubmitExchangeBy(Users)

ParticipantNext ==
    \/ ParticipantPrepared
    \/ ParticipantMade
    \/ ParticipantExchange
    \/ SubmitRetry
    \/ WalletCall

ParticipantSpec == Init /\ [][ParticipantNext]_vars

----------------------------------------------------------------------------
(* LiveSpec: the setup as the two browser clients drive it.  A client       *)
(* submits each of its four blobs once, the blob of a phase when it sees    *)
(* the session in that phase (it needs the other participants' blobs of the *)
(* phase before to compute its own); every wallet call of the service       *)
(* succeeds.  cl[p] counts the blobs p has submitted.                       *)

ClientPrepare(p) ==
    /\ cl[p] = 0
    /\ Prepare(p, UserPrepared(p))
    /\ cl' = [cl EXCEPT ![p] = 1]

ClientMake(p) ==
    /\ cl[p] = 1
    /\ Make(p, UserMade(p))
    /\ cl' = [cl EXCEPT ![p] = 2]

ClientExchange(p) ==
    /\ cl[p] \in {2, 3}
    /\ sess.exchange_round = cl[p] - 2
    /\ \E k \in 1..NumExchangeBlobs : Exchange(p, UserExchange(p, k))
    /\ cl' = [cl EXCEPT ![p] = @ + 1]

ClientStep(p) ==
    /\ ClientPrepare(p) \/ ClientMake(p) \/ ClientExchange(p)
    /\ UNCHANGED tradeVars

ClientA == ClientStep("user_a")
ClientB == ClientStep("user_b")

WalletSucceeds ==
    /\ \E h \in BagToSet(hs) : WalletStep(h, TRUE)
    /\ UNCHANGED otherVars

LiveNext ==
    \/ ClientA
    \/ ClientB
    \/ WalletSucceeds

LiveSpec ==
    /\ Init
    /\ [][LiveNext]_vars
    /\ WF_vars(ClientA)
    /\ WF_vars(ClientB)
    /\ WF_vars(WalletSucceeds)

----------------------------------------------------------------------------
(* TradeSpec: the trade routes, the admin routes and the deposit monitor,   *)
(* for a trade whose session is new or has completed its setup; the build   *)
(* and the deployed depositMonitor are either of the two the source allows  *)

\* The session after both users and the service have prepared, made and
\* exchanged twice, each once and in order
ReadySession ==
    LET s0 == NewSession(MaxHeight)
        s1 == updateSession(s0,
                [ user_a_prepared_hex |-> UserPrepared("user_a"),
                  user_b_prepared_hex |-> UserPrepared("user_b"),
                  status |-> "making" ])
        s2 == updateSession(s1,
                [ user_a_made_hex |-> UserMade("user_a"),
                  user_b_made_hex |-> UserMade("user_b") ])
        s3 == makeFinal(updateSession(s2,
                [ service_made_hex |-> makeMultisig(peerHexes(s2)) ]))
        s4 == updateSession(s3,
                [ user_a_exchange_hexes |-> UserExchange("user_a", 1),
                  user_b_exchange_hexes |-> UserExchange("user_b", 1) ])
        s5 == exchangeFinal(updateSession(s4,
                serviceExchangePatch(isFinalRound(s4),
                    exchangeMultisigKeys(0, autoHexesToExchange(s4)))),
                totalRounds(s4))
        s6 == updateSession(s5,
                [ user_a_exchange_hexes |-> UserExchange("user_a", 1),
                  user_b_exchange_hexes |-> UserExchange("user_b", 1) ])
    IN exchangeFinal(updateSession(s6,
            serviceExchangePatch(isFinalRound(s6),
                exchangeMultisigKeys(1, autoHexesToExchange(s6)))),
            totalRounds(s6))

TradeInit ==
    /\ sess \in {NewSession(MaxHeight), ReadySession}
    /\ SessionIdle
    /\ TradeIdle
    /\ hasRequire \in BOOLEAN
    /\ walletMutex \in BOOLEAN

tradeFrame == <<sessVars, cl, buildVars, creating, monitorVars>>

\* What a caller may send in a text field of the body: nothing, or something
TextInputs == {Null, <<1>>}

ReqMarkPaymentSent ==
    /\ trade # Null
    /\ \E caller \in Callers : MarkPaymentSent(caller)
    /\ UNCHANGED tradeFrame

ReqInitiateRelease ==
    /\ trade # Null
    /\ \E caller \in Callers, addr \in TextInputs, ok \in BOOLEAN :
            InitiateRelease(caller, addr, ok)
    /\ UNCHANGED tradeFrame

ReqFinalizeRelease ==
    /\ trade # Null
    /\ \E caller \in Callers, hex \in TextInputs : FinalizeRelease(caller, hex)
    /\ UNCHANGED tradeFrame

FinalizeReleaseWallet ==
    /\ \E r \in BagToSet(rel), outcome \in {"throws", "submitted", "closed"} :
            FinalizeWallet(r, outcome)
    /\ UNCHANGED tradeFrame

ReqDispute ==
    /\ trade # Null
    /\ \E caller \in Callers, reason \in TextInputs : Dispute(caller, reason)
    /\ UNCHANGED tradeFrame

ReqAdminUpdateTrade ==
    /\ trade # Null
    /\ \E status \in TradeStatuses \cup {"bogus"} : AdminUpdateTrade(status)
    /\ UNCHANGED tradeFrame

ReqAdminReleaseEscrow ==
    /\ trade # Null
    /\ \E recipient \in {"buyer", "seller", "bogus"}, addr \in TextInputs :
            AdminReleaseEscrow(recipient, addr)
    /\ UNCHANGED tradeFrame

AdminReleaseEscrowWallet ==
    /\ \E r \in BagToSet(rel), ok \in BOOLEAN : AdminReleaseWallet(r, ok)
    /\ UNCHANGED tradeFrame

ReqCheckDeposit ==
    /\ trade # Null
    /\ \E caller \in Callers : CheckDeposit(caller)
    /\ UNCHANGED tradeFrame

SweepTick == MonitorDeposits /\ UNCHANGED tradeFrame

WalletCheckEnds ==
    /\ \E c \in BagToSet(dc), ok \in BOOLEAN : WalletCheckDone(c, ok)
    /\ UNCHANGED tradeFrame

DepositArrives == Deposit /\ UNCHANGED tradeFrame

TradeNext ==
    \/ ReqMarkPaymentSent
    \/ ReqInitiateRelease
    \/ ReqFinalizeRelease
    \/ FinalizeReleaseWallet
    \/ ReqDispute
    \/ ReqAdminUpdateTrade
    \/ ReqAdminReleaseEscrow
    \/ AdminReleaseEscrowWallet
    \/ ReqCheckDeposit
    \/ SweepTick
    \/ WalletCheckEnds
    \/ DepositArrives

TradeSpec == TradeInit /\ [][TradeNext]_vars

----------------------------------------------------------------------------
(* LifecycleSpec: the trade under its participants' requests, the on-demand *)
(* deposit checks and the sweeps alone; no admin route is called            *)

LifecycleNext ==
    \/ ReqMarkPaymentSent
    \/ ReqInitiateRelease
    \/ ReqFinalizeRelease
    \/ FinalizeReleaseWallet
    \/ ReqDispute
    \/ ReqCheckDeposit
    \/ SweepTick
    \/ WalletCheckEnds
    \/ DepositArrives

LifecycleSpec == TradeInit /\ [][LifecycleNext]_vars

----------------------------------------------------------------------------
(* ReleaseSpec: LifecycleSpec and the admin's release of the escrow of a    *)
(* disputed trade; the admin does not edit the trade row by hand            *)

ReleaseNext ==
    \/ LifecycleNext
    \/ ReqAdminReleaseEscrow
    \/ AdminReleaseEscrowWallet

ReleaseSpec == TradeInit /\ [][ReleaseNext]_vars

----------------------------------------------------------------------------
(* CreateSpec: the creation of the trade and of its session, and the        *)
(* participants' requests for the trade from the moment its row is there    *)

CreateInit ==
    /\ trade = Null
    /\ sess = Null
    /\ creating = "none"
    /\ SessionIdle
    /\ StoreIdle
    /\ hasRequire \in BOOLEAN
    /\ walletMutex \in BOOLEAN

createFrame ==
    <<hs, resp, makeCalls, exchCalls, cl, disputes, unlocked, depositVars,
      releaseVars, buildVars, monitorVars>>

ReqCreateTrade ==
    /\ \E xmr_amount \in Amounts : CreateTradeRequest(xmr_amount)
    /\ UNCHANGED createFrame

CreateTradeSession ==
    /\ \E height \in 0..MaxHeight, ok \in BOOLEAN :
            InitializeMultisigSession(height, ok)
    /\ UNCHANGED createFrame

CreateTradeLink ==
    /\ \E closed \in BOOLEAN, notifies \in BOOLEAN : LinkSession(closed, notifies)
    /\ UNCHANGED createFrame

CreateNext ==
    \/ ReqCreateTrade
    \/ CreateTradeSession
    \/ CreateTradeLink
    \/ ReqMarkPaymentSent
    \/ ReqInitiateRelease
    \/ ReqFinalizeRelease
    \/ FinalizeReleaseWallet
    \/ ReqDispute
    \/ ReqCheckDeposit

CreateSpec == CreateInit /\ [][CreateNext]_vars

----------------------------------------------------------------------------
(* AnswerSpec: the participants' routes with the response each request gets *)
(* before its first await: resp is that response, NoResponse for a handler  *)
(* that has reached its first await                                         *)

answerFrame ==
    <<sess, hs, makeCalls, exchCalls, cl, buildVars, creating, monitorVars>>

AnsweredMarkPaymentSent ==
    /\ trade # Null
    /\ \E caller \in Callers :
            /\ MarkPaymentSent(caller)
            /\ resp' = Response(IF caller # "buyer" THEN 403
                                ELSE IF trade.status # "funded" THEN 400
                                ELSE 200, "")
    /\ UNCHANGED answerFrame

AnsweredInitiateRelease ==
    /\ trade # Null
    /\ \E caller \in Callers, addr \in TextInputs, ok \in BOOLEAN :
            /\ InitiateRelease(caller, addr, ok)
            /\ resp' = Response(IF caller # "seller" THEN 403
                                ELSE IF initiated' # initiated THEN 200
                                ELSE IF trade.status = "payment_sent"
                                        /\ Truthy(addr) /\ sess.status = "ready"
                                THEN 500 ELSE 400, "")
    /\ UNCHANGED answerFrame

AnsweredFinalizeRelease ==
    /\ trade # Null
    /\ \E caller \in Callers, hex \in TextInputs :
            /\ FinalizeRelease(caller, hex)
            /\ resp' = IF caller # "seller" THEN Response(403, "")
                       ELSE IF ~Truthy(hex) THEN Response(400, "")
                       ELSE NoResponse
    /\ UNCHANGED answerFrame

AnsweredDispute ==
    /\ trade # Null
    /\ \E caller \in Callers, reason \in TextInputs :
            /\ Dispute(caller, reason)
            /\ resp' = Response(IF ~Truthy(reason) THEN 400
                                ELSE IF caller \notin {"buyer", "seller"} THEN 403
                                ELSE IF trade.status \in {"completed", "disputed"}
                                THEN 400 ELSE 200, "")
    /\ UNCHANGED answerFrame

AnsweredCheckDeposit ==
    /\ trade # Null
    /\ \E caller \in Callers :
            /\ CheckDeposit(caller)
            /\ resp' = IF caller \notin {"buyer", "seller"}
                       THEN Response(403, "")
                       ELSE NoResponse
    /\ UNCHANGED answerFrame

AnswerNext ==
    \/ AnsweredMarkPaymentSent
    \/ AnsweredInitiateRelease
    \/ AnsweredFinalizeRelease
    \/ FinalizeReleaseWallet
    \/ AnsweredDispute
    \/ AnsweredCheckDeposit
    \/ WalletCheckEnds
    \/ DepositArrives

AnswerInit ==
    /\ sess = ReadySession
    /\ SessionIdle
    /\ TradeIdle
    /\ hasRequire \in BOOLEAN
    /\ walletMutex \in BOOLEAN

AnswerSpec == AnswerInit /\ [][AnswerNext]_vars

----------------------------------------------------------------------------
(* MonitorSpec: the deposit monitor await by await.  A bounded number of    *)
(* check-deposit requests and sweeps arrive; each wallet call resolves,     *)
(* throws or never returns.  MonitorLiveSpec: a wallet call that has not    *)
(* hung returns, and the timer of the sync fires.                           *)

MaxRequests == 3    \* check-deposit requests and sweeps that arrive

MonitorInit ==
    /\ sess \in {NewSession(MaxHeight), ReadySession}
    /\ SessionIdle
    /\ TradeIdle
    /\ hasRequire = TRUE
    /\ walletMutex \in BOOLEAN

monitorFrame == <<sessVars, cl, buildVars, creating>>

CheckRequested ==
    /\ calls < MaxRequests
    /\ calls' = calls + 1
    /\ \E caller \in Callers : CheckDeposit(caller)
    /\ UNCHANGED <<monitorFrame, handles>>

SweepRequested ==
    /\ calls < MaxRequests
    /\ calls' = calls + 1
    /\ MonitorDeposits
    /\ UNCHANGED <<monitorFrame, handles>>

WalletCallReturns ==
    /\ \E c \in BagToSet(dc), ok \in BOOLEAN, synced \in BOOLEAN :
            performWalletCheck(c, ok, synced)
    /\ UNCHANGED <<monitorFrame, calls>>

WalletCallHangs ==
    /\ \E c \in BagToSet(dc) : WalletHangs(c)
    /\ UNCHANGED <<monitorFrame, calls>>

SyncTimeout ==
    /\ \E c \in BagToSet(dc) : SyncTimesOut(c)
    /\ UNCHANGED <<monitorFrame, calls>>

MonitorNext ==
    \/ CheckRequested
    \/ SweepRequested
    \/ WalletCallReturns
    \/ WalletCallHangs
    \/ SyncTimeout
    \/ DepositArrives

MonitorSpec == MonitorInit /\ [][MonitorNext]_vars

MonitorLiveSpec ==
    /\ MonitorSpec
    /\ WF_vars(WalletCallReturns)
    /\ WF_vars(SyncTimeout)

----------------------------------------------------------------------------
(* SweepSpec: a pending trade on a ready session under the background      *)
(* sweep alone: startDepositMonitor's timer, wallet calls that succeed, and *)
(* the deposit; the buyer marks the payment as sent, but nobody asks for a  *)
(* check and nobody opens a dispute                                         *)

SweepInit ==
    /\ sess = ReadySession
    /\ SessionIdle
    /\ TradeIdle
    /\ hasRequire = TRUE
    /\ walletMutex \in BOOLEAN

WalletCallSucceeds ==
    /\ \E c \in BagToSet(dc), synced \in BOOLEAN :
            performWalletCheck(c, TRUE, synced)
    /\ UNCHANGED <<monitorFrame, calls>>

SweepNext ==
    \/ SweepTick
    \/ WalletCallSucceeds
    \/ DepositArrives
    \/ ReqMarkPaymentSent

\* setInterval fires for as long as the process runs, and a wallet call that
\* succeeds returns
SweepSpec ==
    /\ SweepInit
    /\ [][SweepNext]_vars
    /\ WF_vars(SweepTick)
    /\ WF_vars(WalletCallSucceeds)

----------------------------------------------------------------------------
(* FeeSpec: LifecycleSpec for a trade of any of the amounts, its session    *)
(* ready                                                                    *)

FeeInit ==
    /\ sess = ReadySession
    /\ SessionIdle
    /\ \E xmr_amount \in Amounts : TradeIdleFor(xmr_amount)
    /\ hasRequire \in BOOLEAN
    /\ walletMutex \in BOOLEAN

FeeSpec == FeeInit /\ [][LifecycleNext]_vars

----------------------------------------------------------------------------
(* Properties of the session coordinator *)

Rank(status) ==
    CHOOSE i \in 1..Len(SessionStatuses) : SessionStatuses[i] = status

\* C1: under every interleaving of prepare, make, exchange and
\* retry-service-exchange requests, suspended handlers included, no step moves
\* the session status backward in preparing < making < exchanging < ready.
StatusNeverRegresses ==
    [][Rank(sess'.status) >= Rank(sess.status)]_vars

\* C2: in every reachable state a session whose status is ready has a
\* non-empty multisig_address, whichever path completed the final round.
ReadyHasAddress ==
    sess.status = "ready" => Truthy(sess.multisig_address)

\* C3: the service's makeMultisig is invoked at most once per session and its
\* exchangeMultisigKeys at most once per exchange round, under every
\* interleaving of submissions, re-submissions and retries.
ServiceComputesAtMostOnce ==
    /\ makeCalls <= 1
    /\ \A r \in Rounds : exchCalls[r] <= 1

PreparedSlotsFilled(s) ==
    \A r \in Roles : Truthy(s[r \o "_prepared_hex"])

\* C12, as stated: the step of prepare that fills the last of the three
\* prepared slots computes the service's made blob with the wallet, stores it
\* and advances the status to making.
LastPreparedComputesServiceMade ==
    [][(sess.status = "preparing" /\ PreparedSlotsFilled(sess'))
          => /\ sess'.status = "making"
             /\ Truthy(sess'.service_made_hex)]_vars

\* C12, amended: the step of prepare that fills the last of the three
\* prepared slots advances the status to making and does nothing else: no
\* wallet call is started or counted and service_made_hex stays empty (the
\* make route computes it later).  The status becomes making in no other
\* step, and never is preparing again.
LastPreparedAdvancesToMaking ==
    [][/\ (sess.status = "preparing" /\ PreparedSlotsFilled(sess'))
          => /\ sess'.status = "making"
             /\ ~Truthy(sess'.service_made_hex)
             /\ makeCalls' = makeCalls
             /\ hs' = hs
       /\ (sess'.status = "making" /\ sess.status # "making")
          => sess.status = "preparing" /\ PreparedSlotsFilled(sess')
       /\ sess.status # "preparing" => sess'.status # "preparing"]_vars

\* All three have prepared, the session is making and the service has not
\* made yet
MakingBeforeServiceMade ==
    /\ sess.status = "making"
    /\ PreparedSlotsFilled(sess)
    /\ ~Truthy(sess.service_made_hex)
    /\ makeCalls = 0

\* The three current-round exchange slots, and the three previous-round fields
ExchangeSlotsOf(s) == {s[r \o "_exchange_hexes"] : r \in Roles}
PreviousSlotsOf(s) == {s[r \o "_exchange_hexes_prev"] : r \in Roles}

\* The round counter moved with all three current-round slots filled: they
\* still are, or they have just been copied to the previous-round fields
RoundClosedWithAllSlots ==
    \/ Null \notin ExchangeSlotsOf(sess')
    \/ Null \notin PreviousSlotsOf(sess')

\* C13: totalRounds is total_participants - threshold + 1 = 2; a session that
\* is ready has completed exactly totalRounds exchange rounds; exchange_round
\* changes only by one, upward, at a moment when all three current-round
\* exchange slots are filled.
ReadyAfterTotalRounds ==
    [][/\ totalRounds(sess') = 2
       /\ sess'.status = "ready" => sess'.exchange_round = totalRounds(sess')
       /\ sess'.exchange_round # sess.exchange_round
            => /\ sess'.exchange_round = sess.exchange_round + 1
               /\ RoundClosedWithAllSlots]_vars

\* C14: every step that increments exchange_round and starts a further round,
\* in the exchange route or in retry-service-exchange, leaves the three
\* current-round exchange slots empty and the three previous-round fields
\* filled with the values of the round just completed.
NextRoundStartsClean ==
    [][(/\ sess'.exchange_round = sess.exchange_round + 1
        /\ sess'.status = "exchanging")
          => /\ ExchangeSlotsOf(sess') = {Null}
             /\ Null \notin PreviousSlotsOf(sess')]_vars

\* The blobs of the two users the service's key exchange of the session's
\* round is due: their made blobs in round 0, their exchange values of the
\* previous round afterwards
DueExchangeInputs(s) ==
    IF s.exchange_round = 0
    THEN <<s.user_a_made_hex, s.user_b_made_hex>>
    ELSE <<s.user_a_exchange_hexes_prev, s.user_b_exchange_hexes_prev>>

\* C15: whenever the service's exchangeMultisigKeys is computed (auto-exchange,
\* exchange as service, retry), its input is the two users' made blobs in
\* round 0 and the two users' previous-round exchange values in later rounds.
ServiceExchangesDueInputs ==
    [][exchCalls' # exchCalls
          => LET due == exchangeMultisigKeys(sess.exchange_round,
                                             DueExchangeInputs(sess))
             IN \/ sess'.service_exchange_hexes = due
                \/ \E h \in BagToSet(hs') : h.pc = "xs_2" /\ h.val = due]_vars

\* The response of the phase check in the given status
PhaseError(status) == Response(400, "Session is in " \o status \o " state")

\* A request of the route is rejected by the phase check and nothing but the
\* response changes
Rejected(route) ==
    route => /\ resp' = PhaseError(sess.status)
             /\ UNCHANGED <<sess, hs, makeCalls, exchCalls>>

\* C16: a prepare, make or exchange request that finds the session in a status
\* other than preparing, making or exchanging respectively is answered with
\* the phase-mismatch error and leaves every field of the session unchanged
\* (and starts no wallet call).
PhaseMismatchRejected ==
    [][/\ sess.status # "preparing" => Rejected(SubmitPrepared)
       /\ sess.status # "making" => Rejected(SubmitMade)
       /\ sess.status # "exchanging" => Rejected(SubmitExchange)]_vars

\* A request has been rejected by the phase check after the setup has
\* progressed
RejectedAfterProgress ==
    /\ sess.status \in {"exchanging", "ready"}
    /\ resp = PhaseError(sess.status)
    /\ allMade(sess)

\* A wallet call of the auto-make or of the auto-exchange of handler h throws
AutoTriggerFails(h) ==
    /\ h.pc \in {"am_1", "am_2", "ax_1", "ax_2"}
    /\ WalletStep(h, FALSE)

\* What the users have submitted
UserSlotsOf(s) ==
    [p \in Users |-> << s[p \o "_prepared_hex"], s[p \o "_made_hex"],
                        s[p \o "_exchange_hexes"] >>]

\* C17: when a wallet call of a make or exchange auto-trigger fails, at
\* whichever step, the handler whose call failed changes neither the
\* session's status, exchange_round, multisig_address and service slots nor
\* the users' submissions.
FailedAutoTriggerWritesNothing ==
    [][\A h \in BagToSet(hs) :
          AutoTriggerFails(h)
             => /\ sess'.status = sess.status
                /\ sess'.exchange_round = sess.exchange_round
                /\ sess'.multisig_address = sess.multisig_address
                /\ sess'.service_made_hex = sess.service_made_hex
                /\ sess'.service_exchange_hexes = sess.service_exchange_hexes
                /\ UserSlotsOf(sess') = UserSlotsOf(sess)]_vars

\* retry-service-exchange, alone in flight, completes
RetryCompletes ==
    \E h \in BagToSet(hs) :
        /\ hs = SetToBag({h})
        /\ h.pc = "rt_2"
        /\ Retry2(h, TRUE)

\* C18: a retry-service-exchange that succeeds after the auto-exchange of the
\* round has failed leaves the session as the exchange route leaves it when
\* its auto-exchange succeeds in that round: same status, exchange_round,
\* current-round slots, previous-round fields and multisig_address.
RetryEndsLikeAutoExchange ==
    [][RetryCompletes => sess' = exchangeFinal(sess, totalRounds(sess))]_vars

\* The session row without its multisig_address
WithoutAddress(s) == [f \in DOMAIN s \ {"multisig_address"} |-> s[f]]

\* C28: once the session's status is ready, no step (the resumption of a
\* handler that passed its phase check earlier and was suspended on a wallet
\* call included) changes its status, its exchange_round or any prepared,
\* made, current-round or previous-round slot; multisig_address alone may
\* still be written, and only while it is empty.
ReadySessionIsFrozen ==
    [][sess.status = "ready"
          => /\ WithoutAddress(sess') = WithoutAddress(sess)
             /\ sess'.multisig_address # sess.multisig_address
                  => ~Truthy(sess.multisig_address)]_vars

\* User p submits blob as its exchange blob while the session is exchanging
ExchangeSubmission(p, blob) ==
    /\ Truthy(blob)
    /\ Exchange(p, blob)
    /\ UNCHANGED otherVars

\* C29: an exchange blob is stored only in the slot of its round: a user's
\* re-submission of the blob its current-round slot already holds leaves the
\* session row as it is, and a re-submission of the blob the user gave for
\* the round just completed (now in its previous-round field) does not go
\* into the user's slot of the round that follows.
ExchangeStoresInOwnRound ==
    [][\A p \in Users : \A blob \in ExchangeInputs(p) :
          ExchangeSubmission(p, blob)
             => /\ sess[p \o "_exchange_hexes"] = blob => sess' = sess
                /\ sess[p \o "_exchange_hexes_prev"] = blob
                     => sess'[p \o "_exchange_hexes"] # blob]_vars

\* The suspended handler h resumes after the service's key exchange and
\* getAddress, and writes multisig_address
WritesAddress(h) ==
    /\ h.final
    /\ \/ ExchangeService1(h, TRUE)
       \/ AutoExchange1(h, TRUE)
       \/ Retry1(h, TRUE)

\* C30: multisig_address is written at most once per session: every handler
\* that writes it (exchange as service, auto-exchange, retry) does so after
\* the service's key exchange of the final round and finds it empty, also
\* when two handlers of the final round are in flight together.
AddressWrittenOnce ==
    [][\A h \in BagToSet(hs) :
          WritesAddress(h)
             => /\ ~Truthy(sess.multisig_address)
                /\ isFinalRound(sess)]_vars

----------------------------------------------------------------------------
(* Properties of the deposit monitor and of the trade lifecycle *)

\* C4: however many checkDeposit calls run concurrently on the session, at
\* most one wallet round trip (open, sync, read balances, close) is in
\* progress at any time.  Stated for the depositMonitor that has the
\* walletLocks mutex (the other one takes no lock at all).
AtMostOneRoundTrip == walletMutex => BagCardinality(dc) <= 1

\* The steps in which a release route moves the trade to completed
Completes ==
    /\ FinalizeReleaseWallet \/ AdminReleaseEscrowWallet
    /\ trade.status # "completed"
    /\ trade'.status = "completed"

\* C5: finalize-release and the admin release-escrow set the trade to
\* completed only when a release transaction with exactly two signatures, one
\* of them an external party's, has been submitted for broadcast.
CompletedOnlyAfterBroadcast ==
    [][Completes => /\ Cardinality(broadcast') = 2
                    /\ broadcast' \cap {"buyer", "seller"} # {}]_vars

\* C6: the trade never has more than one platform_fees row, and has exactly
\* one when a release route completes it, however often finalize-release or
\* release-escrow is invoked.
PlatformFeeExactlyOnce ==
    [][/\ fees' <= 1
       /\ Completes => fees' = 1]_vars

\* The steps of the participant-facing routes and of the poller
ParticipantOrPollerStep ==
    \/ ReqMarkPaymentSent
    \/ ReqInitiateRelease
    \/ ReqFinalizeRelease
    \/ FinalizeReleaseWallet
    \/ ReqDispute
    \/ ReqCheckDeposit
    \/ SweepTick
    \/ WalletCheckEnds

\* C7: once the trade is completed or cancelled, no step of mark-payment-sent,
\* initiate-release, finalize-release, dispute, check-deposit or the sweep
\* changes its status.
TerminalStatusStays ==
    [][(trade.status \in {"completed", "cancelled"} /\ ParticipantOrPollerStep)
          => trade'.status = trade.status]_vars

\* C8: a deposit check writes funded only if, at the moment of the write, the
\* trade is pending and the unlocked balance covers the expected amount.
FundedOnlyFromPending ==
    [][fundedWrites' # fundedWrites
          => trade.status = "pending" /\ unlocked]_vars

\* C9: once a deposit check has moved the trade to funded, no deposit check, in
\* flight or new, writes
\* funded again or sends another deposit_detected notification.
FundedOnlyOnce ==
    [][(trade.status = "funded" /\ fundedWrites >= 1)
          => fundedWrites' = fundedWrites /\ notified' = notified]_vars

\* The happy path of a trade
TradeOrder ==
    << "pending", "funded", "payment_sent", "payment_confirmed", "releasing",
       "completed" >>

OnTradeOrder(status) == \E i \in 1..Len(TradeOrder) : TradeOrder[i] = status

TradeRank(status) == CHOOSE i \in 1..Len(TradeOrder) : TradeOrder[i] = status

\* C11: under every interleaving of participant requests, deposit checks and
\* sweeps, a change of the trade's status from one status of the happy path
\* pending, funded, payment_sent, payment_confirmed, releasing, completed to
\* another one moves it strictly forward in that order.
TradeStatusMovesForward ==
    [][(/\ trade'.status # trade.status
        /\ OnTradeOrder(trade.status)
        /\ OnTradeOrder(trade'.status))
          => TradeRank(trade'.status) > TradeRank(trade.status)]_vars

\* A wallet call of a finalize-release handler throws before anything is
\* submitted
FinalizeFails(r) == FinalizeWallet(r, "throws") /\ UNCHANGED tradeFrame

\* C19: when a wallet call of finalize-release fails (open, co-sign or
\* submit), the trade's status after the request is the status the request
\* found, and no platform fee has been recorded.
FailedFinalizeRestoresStatus ==
    [][\A r \in BagToSet(rel) :
          FinalizeFails(r) => trade'.status = r.status /\ fees' = fees]_vars

\* finalize-release submits the release transaction to the network
Broadcasts ==
    /\ FinalizeReleaseWallet
    /\ unlocked
    /\ ~unlocked'

\* C20: every submission of a release transaction by finalize-release comes
\* after the payout and fee computation of an initiate-release of the trade.
BroadcastAfterInitiate ==
    [][Broadcasts => initiated]_vars

\* X * permille / 1000 in atomic units, for the decimal X of the request
ShareAtomic(x, permille) ==
    Atomic(DivNat(MulNat(NatOf(x.num * permille), NatOf(1000000000)), x.den).q)

\* The Number a decimal literal of X * 0.005 denotes
FeeNumber(x) == parseNumber(x.num * 5, x.den * 1000)

\* C21: for a trade whose cryptoAmount is X, every transaction initiate-release
\* asks the wallet to create is for X * 0.995, every PlatformFee recorded is
\* X * 0.005 (so that payout plus fee is X), and the fee recorded at finalize
\* is the fee reported at initiate
PayoutPlusFeeIsAmount ==
    \A x \in Amounts :
        trade.xmr_amount = parseNumber(x.num, x.den) =>
            /\ createTx # Null => createTx = ShareAtomic(x, 995)
            /\ \A a \in amount_xmr : a = FeeNumber(x)
            /\ platformFee # Null => \A a \in amount_xmr : a = platformFee

CreateTradeEnded == creating \in {"201", "500"}

\* C22: once a create-trade request has ended, with success or with failure,
\* the trade it persisted references a session, and a session reference, once
\* written, never changes
TradeReferencesOneSession ==
    /\ [](CreateTradeEnded => Truthy(trade.multisig_session_id))
    /\ [][trade # Null /\ Truthy(trade.multisig_session_id)
            => trade'.multisig_session_id = trade.multisig_session_id]_vars

\* A request to one of the three release routes
ReleaseRequest ==
    ReqInitiateRelease \/ ReqFinalizeRelease \/ ReqAdminReleaseEscrow

SessionIsReady == Truthy(trade.multisig_session_id) /\ sess.status = "ready"

\* C23: a request to initiate-release, finalize-release or the admin's
\* release-escrow for a trade whose session is missing or not ready starts no
\* wallet call (no handler is suspended on the wallet, no transaction is
\* asked for) and leaves the trade as it is
NoReleaseBeforeSessionReady ==
    [][ReleaseRequest /\ ~SessionIsReady
        => UNCHANGED <<trade, rel, initiated, createTx>>]_vars

\* C24: a trade has at most one open Dispute record: no dispute is resolved
\* by the participants' routes, so every row of disputes is an open one
AtMostOneOpenDispute == disputes <= 1

\* C25: the trade becomes payment_sent only from funded, by a step that
\* changes nothing else of it, and a mark-payment-sent request of a caller
\* who is not the buyer, or for a trade that is not funded, leaves the trade
\* unchanged
PaymentSentOnlyByBuyerOfFunded ==
    [][/\ trade'.status = "payment_sent" /\ trade.status # "payment_sent"
            => /\ trade.status = "funded"
               /\ trade' = [trade EXCEPT !.status = "payment_sent"]
       /\ \A caller \in Callers :
            /\ MarkPaymentSent(caller)
            /\ caller # "buyer" \/ trade.status # "funded"
            => UNCHANGED trade]_vars

\* The buyer has marked the payment of a funded trade as sent
PaymentMarkedSent ==
    /\ trade.status = "payment_sent"
    /\ fundedWrites = 1
    /\ rel = EmptyBag
    /\ disputes = 0

\* C26: a request to initiate-release changes no field of the trade, whether
\* it succeeds, is rejected, or one of its wallet calls fails
InitiateReleaseLeavesTrade ==
    [][ReqInitiateRelease => UNCHANGED trade]_vars

\* The seller's initiate-release has succeeded and the trade is still
\* payment_sent
InitiatedInPaymentSent ==
    /\ initiated
    /\ createTx # Null
    /\ trade.status = "payment_sent"

\* A request to one of the participants' routes
AnsweredRequest ==
    \/ AnsweredMarkPaymentSent
    \/ AnsweredInitiateRelease
    \/ AnsweredFinalizeRelease
    \/ AnsweredDispute
    \/ AnsweredCheckDeposit

\* C27: a request that is rejected for its caller's role (403: not the buyer
\* for mark-payment-sent, not the seller for initiate-release and
\* finalize-release, not a participant for dispute and check-deposit) writes
\* no trade, dispute or fee record and starts no wallet call
RoleViolationWritesNothing ==
    [][resp'.code = 403 /\ AnsweredRequest
        => UNCHANGED <<trade, disputes, fees, amount_xmr, dc, rel, createTx,
                       initiated>>]_vars

\* A request has been rejected for its caller's role after the trade has
\* made progress
ForbiddenAfterProgress ==
    /\ resp.code = 403
    /\ trade.status = "payment_sent"

----------------------------------------------------------------------------
(* Properties of the deposit monitor's wallet round trip *)

\* The checks of the bag that hold an open wallet handle
RECURSIVE HandlesHeld(_)
HandlesHeld(checks) ==
    IF BagToSet(checks) = {}
    THEN 0
    ELSE LET c == CHOOSE x \in BagToSet(checks) : TRUE
         IN (IF c.handle THEN 1 ELSE 0) + HandlesHeld(Remove(checks, c))

AtMostOneHandleOpen == handles <= 1

\* C33: every checkDeposit call returns, also when a wallet call (open,
\* height query, rescan, sync, balance read) never returns: once the requests
\* have stopped arriving, no call is left in checkWalletDeposits, neither in
\* the wallet round trip nor waiting for the lock.
EveryCheckReturns == <>[](dc = EmptyBag)

\* The checks that are at position pc of their wallet round trip
ChecksAt(checks, pc) ==
    BagCardinality([c \in {x \in BagToSet(checks) : x.pc = pc} |-> checks[c]])

\* C34: a caller that found a check in flight and waited for it does not
\* return with that check: in a step in which a caller returns from
\* checkWalletDeposits exactly one returns, and the callers that stop
\* waiting in that step are in flight after it, each at the start of a
\* wallet round trip of its own.
WaitersRunOwnRoundTrip ==
    [][InFlight(dc') < InFlight(dc)
          => /\ InFlight(dc') = InFlight(dc) - 1
             /\ \A pc \in {"height", "sync", "balance", "close", "catch"} :
                    ChecksAt(dc', pc) <= ChecksAt(dc, pc)]_vars

\* With walletLocks, two callers that waited are each in a round trip of
\* their own
WaitersInOwnRoundTrip ==
    /\ walletMutex
    /\ BagCardinality(dc) >= 2
    /\ \A c \in BagToSet(dc) : c.waiters = <<>>

\* C35: a pending trade linked to a ready session whose unlocked balance
\* has reached the trade's amount and stays there is eventually funded by
\* the periodic sweep alone.
SweepFundsTrade ==
    (unlocked /\ trade.status = "pending") ~> (trade.status = "funded")

\* The same, in the version whose startDepositMonitor starts the timer
SweepFundsTradeWhenStarted ==
    (~walletMutex /\ unlocked /\ trade.status = "pending")
        ~> (trade.status = "funded")

----------------------------------------------------------------------------
(* Properties of the session row's slots                                    *)

\* The three made slots of the session row are filled
MadeSlotsFilled(s) ==
    \A r \in Roles : Truthy(s[r \o "_made_hex"])

\* C36: in every reachable state, a session that is making, exchanging or
\* ready has the prepared blobs of all three roles, and a session that is
\* exchanging or ready has the made blobs of all three roles.
SlotsFilledByStatus ==
    /\ sess.status \in {"making", "exchanging", "ready"}
          => PreparedSlotsFilled(sess)
    /\ sess.status \in {"exchanging", "ready"} => MadeSlotsFilled(sess)

\* The session has gone through making and exchanging and is ready
ReadyWithAllSlots ==
    /\ sess.status = "ready"
    /\ makeCalls >= 1
    /\ PreparedSlotsFilled(sess)
    /\ MadeSlotsFilled(sess)

\* C37: in the step in which a session becomes ready, the service wallet
\* has executed makeMultisig exactly once and exchangeMultisigKeys exactly
\* once in each of the totalRounds rounds, and no handler that started a key
\* exchange of the service is still to write the service's exchange slot.
ReadyAfterOneCallPerRound ==
    [][(sess.status # "ready" /\ sess'.status = "ready")
          => /\ makeCalls' = 1
             /\ \A r \in Rounds : exchCalls'[r] = 1
             /\ \A h \in BagToSet(hs') : h.pc \notin {"ax_1", "ax_2"}]_vars

----------------------------------------------------------------------------
(* Properties of walletLocks                                                *)

\* C38: with walletLocks, whenever a wallet check of the session is in
\* flight the map has an entry for the session and the entry is the promise
\* of a check in flight; a finishing check that leaves a later check in
\* flight leaves that check's entry in the map.
LockEntryWhileChecking ==
    (walletMutex /\ dc # EmptyBag)
        => /\ hasLock
           /\ walletLocks # {}

----------------------------------------------------------------------------
(* Properties of the funded write                                           *)

\* C39: a step that changes the trade moves it from pending to funded and is
\* the end of a wallet round trip that has succeeded up to its close, for a
\* session that is ready; while the session is not ready no check enters the
\* wallet and no handle is opened; and a step in which a wallet call of a
\* check throws or its sync times out, or in which the catch block ends,
\* leaves the trade as it is.
FundedOnlyByOwnSuccess ==
    [][/\ trade' # trade
            => /\ trade.status = "pending"
               /\ trade'.status = "funded"
               /\ sess.status = "ready"
               /\ unlocked
               /\ handles' = handles - 1
               /\ ChecksAt(dc', "close") = ChecksAt(dc, "close") - 1
               /\ ChecksAt(dc', "catch") = ChecksAt(dc, "catch")
       /\ sess.status # "ready"
            => /\ dc' = EmptyBag
               /\ handles' = 0
               /\ trade' = trade
       /\ ChecksAt(dc', "catch") # ChecksAt(dc, "catch") => trade' = trade]_vars

\* The trade has been funded by one check of a ready session, after another
\* check has failed
FundedAfterFailedCheck ==
    /\ trade.status = "funded"
    /\ sess.status = "ready"
    /\ fundedWrites = 1
    /\ calls >= 2
    /\ \E c \in BagToSet(dc) : c.pc = "catch"

----------------------------------------------------------------------------
(* Termination of checkWalletDeposits when the wallet answers               *)

\* No wallet call of a check in flight has hung
NoCallHung == \A c \in BagToSet(dc) : ~c.hung

\* C40: whenever no check of the session is in flight walletLocks has no
\* entry for it, after a check that failed as after one that succeeded; and
\* if no wallet call hangs, every checkWalletDeposits call returns, the
\* callers queued behind a check in flight included.
EveryCallReturnsAndUnlocks ==
    /\ [](dc = EmptyBag => ~hasLock)
    /\ []NoCallHung => <>[](dc = EmptyBag)

\* With walletLocks, every request has been made and every call has
\* returned, one of them with the deposit, and the map is empty
AllCallsReturnedLockFree ==
    /\ walletMutex
    /\ sess.status = "ready"
    /\ calls = MaxRequests
    /\ fundedWrites = 1
    /\ dc = EmptyBag
    /\ ~hasLock

====
